---- MODULE Spec2Model ----
(***************************************************************************)
(* A model of osync's index package (internal/index/index.go): Load,       *)
(* Compute, Index.Diff and Index.Save, over a small file system.           *)
(*                                                                         *)
(* A Go string is a sequence of one-character strings, so that splitting,  *)
(* trimming, line scanning and formatting are computed as the code         *)
(* computes them.  An Index's files map is a function from path to         *)
(* checksum.                                                               *)
(***************************************************************************)
EXTENDS Naturals, Sequences, FiniteSets, TLC

VARIABLES
    directory,     \* the directory argument of Load and Compute, Index.directory
    fs,            \* the tree under the directory: relative path -> [kind, content]
    prev,          \* files of the Index returned by Load
    cur,           \* files of the Index returned by Compute
    changedFiles,  \* first result of prev.Diff(cur)
    deletedFiles,  \* second result of prev.Diff(cur)
    res,           \* what Load, Compute and Save last returned: nil, error, panic, fatal
    ignoredFiles,  \* Compute's ignoredFiles
    failure,       \* the I/O failure that struck Compute
    flushed,       \* whether Save's deferred w.Flush() wrote every byte
    before,        \* the index file as it was when Save was called
    pc,            \* the stage of the synchronisation run
    runs,          \* runs started
    edits,         \* edits the user made to the tree
    dirty          \* the user edited the tree since the last Save

vars == <<directory, fs, prev, cur, changedFiles, deletedFiles, res,
          ignoredFiles, failure, flushed, before, pc, runs, edits, dirty>>

----------------------------------------------------------------------------
(* Bounds *)

MaxRuns == 2
MaxEdits == 1
MaxEntries == 2
MaxCut == 4

----------------------------------------------------------------------------
(* Strings *)

LF == "\n"
CR == "\r"

indexFile == <<".", "o", "s", "y", "n", "c">>
ignoreFile == indexFile \o <<"i", "g", "n", "o", "r", "e">>

\* strings.Split(s, sep) for a one-character sep
RECURSIVE Split(_, _)
Split(s, sep) ==
    IF \A i \in 1..Len(s) : s[i] # sep
    THEN <<s>>
    ELSE LET i == CHOOSE k \in 1..Len(s) :
                      s[k] = sep /\ \A j \in 1..(k - 1) : s[j] # sep
         IN  <<SubSeq(s, 1, i - 1)>> \o Split(SubSeq(s, i + 1, Len(s)), sep)

\* strings.TrimPrefix
TrimPrefix(s, prefix) ==
    IF Len(prefix) <= Len(s) /\ SubSeq(s, 1, Len(prefix)) = prefix
    THEN SubSeq(s, Len(prefix) + 1, Len(s))
    ELSE s

\* bufio's dropCR
DropCR(line) ==
    IF Len(line) > 0 /\ line[Len(line)] = CR
    THEN SubSeq(line, 1, Len(line) - 1)
    ELSE line

\* The tokens of a bufio.Scanner with the default split function
\* (bufio.ScanLines): the data cut at each "\n", a trailing "\r" dropped
\* from each token, no token for the empty rest after the last "\n".
ScanLines(data) ==
    LET parts == Split(data, LF)
        toks  == IF parts[Len(parts)] = <<>>
                 THEN SubSeq(parts, 1, Len(parts) - 1)
                 ELSE parts
    IN  [i \in 1..Len(toks) |-> DropCR(toks[i])]

RECURSIVE JoinSlash(_)
JoinSlash(cs) ==
    IF cs = <<>> THEN <<>>
    ELSE IF Len(cs) = 1 THEN cs[1]
    ELSE cs[1] \o <<"/">> \o JoinSlash(Tail(cs))

\* filepath.Clean on paths without "..": empty and "." elements go, as do
\* repeated and trailing separators.
Clean(p) ==
    LET body == JoinSlash(SelectSeq(Split(p, "/"),
                                    LAMBDA c : c # <<>> /\ c # <<".">>))
    IN  IF p # <<>> /\ p[1] = "/" THEN <<"/">> \o body
        ELSE IF body = <<>> THEN <<".">>
        ELSE body

\* filepath.Join(dir, name)
Join(dir, name) == Clean(dir \o <<"/">> \o name)

\* fmt.Sprintf("%x", b) of one byte
HexDigit == <<"0", "1", "2", "3", "4", "5", "6", "7",
              "8", "9", "a", "b", "c", "d", "e", "f">>
Lower == <<"a", "b", "c", "d", "e", "f", "g", "h", "i", "j", "k", "l", "m",
           "n", "o", "p", "q", "r", "s", "t", "u", "v", "w", "x", "y", "z">>
Digit == <<"0", "1", "2", "3", "4", "5", "6", "7", "8", "9">>

IndexOf(seq, c) == CHOOSE i \in 1..Len(seq) : seq[i] = c

Byte(c) ==
    IF \E i \in 1..Len(Lower) : Lower[i] = c THEN 96 + IndexOf(Lower, c)
    ELSE IF \E i \in 1..Len(Digit) : Digit[i] = c THEN 47 + IndexOf(Digit, c)
    ELSE CASE c = LF  -> 10
           [] c = CR  -> 13
           [] c = "." -> 46
           [] c = "/" -> 47
           [] c = ":" -> 58

HexByte(c) == <<HexDigit[(Byte(c) \div 16) + 1], HexDigit[(Byte(c) % 16) + 1]>>

\* The digest of sha1sum, as lowercase hex.  SHA-1 itself is replaced by an
\* ideal hash: a function of the content alone, injective, whose output is
\* a string of hex digits (here the hex of the content's bytes).
RECURSIVE Sha1Hex(_)
Sha1Hex(content) ==
    IF content = <<>> THEN <<>>
    ELSE HexByte(Head(content)) \o Sha1Hex(Tail(content))

\* The sequences that list each element of S once: the orders in which a
\* range over a Go map may visit its keys.
RECURSIVE Orders(_)
Orders(S) ==
    IF S = {} THEN {<<>>}
    ELSE UNION {{<<x>> \o o : o \in Orders(S \ {x})} : x \in S}

Range(seq) == {seq[i] : i \in 1..Len(seq)}

----------------------------------------------------------------------------
(* The file system *)

File(content) == [kind |-> "file", content |-> content]
Dir == [kind |-> "dir", content |-> <<>>]
Symlink == [kind |-> "symlink", content |-> <<>>]

\* The root of the walk, as a place where an I/O failure can strike
Root == <<>>

\* entry e lies under directory d of the tree
Under(e, d) ==
    d = Root \/ (Len(d) < Len(e) /\ SubSeq(e, 1, Len(d) + 1) = d \o <<"/">>)

Put(f, p, entry) == [q \in DOMAIN f \cup {p} |-> IF q = p THEN entry ELSE f[q]]
Remove(f, p) == [q \in DOMAIN f \ {p} |-> f[q]]

----------------------------------------------------------------------------
(* Index *)

\* map[string]string{}, and the nil map of Index{}
NoIndex == [p \in {} |-> <<>>]

\* m[k] on a Go map: the zero value "" when k is absent
Lookup(m, k) == IF k \in DOMAIN m THEN m[k] ELSE <<>>

\* readLines: the lines of a file that opened and read without error
readLines(content) == ScanLines(content)

\* Load's loop takes parts[1] of every line: a line without ":" is an
\* index out of range, a run-time panic.
OutOfRange(lines) ==
    \E i \in 1..Len(lines) : Len(Split(lines[i], ":")) < 2

\* Load's loop on lines that all hold a ":": a later line overwrites an
\* earlier one with the same parts[0].
ParseLines(lines) ==
    LET key(i) == Split(lines[i], ":")[1]
        last(k) == CHOOSE i \in 1..Len(lines) :
                       key(i) = k /\ \A j \in (i + 1)..Len(lines) : key(j) # k
    IN  [k \in {key(i) : i \in 1..Len(lines)} |-> Split(lines[last(k)], ":")[2]]

\* Load(directory) on tree f; io = "fail" when opening or reading the
\* index file fails.
LoadResult(f, io) ==
    IF indexFile \notin DOMAIN f THEN [res |-> "nil", files |-> NoIndex]
    ELSE IF io = "fail" THEN [res |-> "error", files |-> NoIndex]
    ELSE LET lines == readLines(f[indexFile].content)
         IN  IF OutOfRange(lines)
             THEN [res |-> "panic", files |-> NoIndex]
             ELSE [res |-> "nil", files |-> ParseLines(lines)]

\* sha1sum(path) on a file that opens and reads
sha1sum(content) == Sha1Hex(content)

\* The path filepath.Walk hands to the callback for entry e of the tree
WalkPath(dir, e) == Join(dir, e)

\* Compute's localPath
LocalPath(dir, e) == TrimPrefix(WalkPath(dir, e), dir \o <<"/">>)

NoFailure == [at |-> Root, kind |-> "none"]

\* The I/O failures that can strike one Compute: at most one, at the root
\* or at an entry of the tree.
Failures(f) ==
    {NoFailure}
    \cup {[at |-> Root, kind |-> k] : k \in {"lstat", "readdir"}}
    \cup {[at |-> e, kind |-> "lstat"] : e \in DOMAIN f}
    \cup {[at |-> e, kind |-> "readdir"] : e \in {d \in DOMAIN f : f[d].kind = "dir"}}
    \cup {[at |-> e, kind |-> k] :
            e \in {d \in DOMAIN f : f[d].kind = "file"}, k \in {"open", "read"}}

\* Compute's ignoredFiles
IgnoreSet(f) ==
    IF ignoreFile \in DOMAIN f
    THEN LET lines == readLines(f[ignoreFile].content)
         IN  {lines[i] : i \in 1..Len(lines)}
    ELSE {}

\* The entries the walk reaches: all of them, but those under a directory
\* whose listing failed (the callback ignores its err argument and returns
\* nil for a directory).
Visited(f, fail) ==
    {e \in DOMAIN f : ~(fail.kind = "readdir" /\ Under(e, fail.at))}

\* Hashed without the test of the ignore set
Hashed_IgnoreNothing(dir, f, fail) ==
    {e \in Visited(f, fail) : f[e].kind = "file"}

\* The regular files the callback hashes
Hashed(dir, f, fail) ==
    {e \in Visited(f, fail) :
        f[e].kind = "file" /\ LocalPath(dir, e) \notin IgnoreSet(f)}

\* Compute(dir) on tree f under I/O failure fail
ComputeResult(dir, f, fail) ==
    LET ign    == IgnoreSet(f)
        hashed == Hashed(dir, f, fail)
        keys   == {LocalPath(dir, e) : e \in hashed}
        of(k)  == CHOOSE e \in hashed : LocalPath(dir, e) = k
        abort(r) == [res |-> r, files |-> NoIndex, ignored |-> ign]
    IN  IF fail.at = ignoreFile /\ fail.kind \in {"open", "read"}
          THEN [res |-> "error", files |-> NoIndex, ignored |-> {}]
        ELSE IF fail.kind = "lstat" /\ (fail.at = Root \/ fail.at \in Visited(f, fail))
          THEN abort("panic")
        ELSE IF fail.kind = "open" /\ fail.at \in hashed
          THEN abort("error")
        ELSE IF fail.kind = "read" /\ fail.at \in hashed
          THEN abort("fatal")
        ELSE [res |-> "nil",
              files |-> [k \in keys |-> sha1sum(f[of(k)].content)],
              ignored |-> ign]

\* i.Diff(other): the results the two range loops can give
Changed(i, other) == {file \in DOMAIN other : Lookup(i, file) # other[file]}
Deleted(i, other) == {file \in DOMAIN i : file \notin DOMAIN other}
Diff(i, other) ==
    {<<c, d>> : c \in Orders(Changed(i, other)), d \in Orders(Deleted(i, other))}

\* Line without the newline that ends it
Line_NoNewline(file, sum) == file \o <<":">> \o sum

\* fmt.Sprintf("%s:%s\n", file, sum)
Line(file, sum) == file \o <<":">> \o sum \o <<LF>>

\* What Save's loop hands to the writer when the range visits the keys in
\* this order
RECURSIVE Serialize(_, _)
Serialize(files, order) ==
    IF order = <<>> THEN <<>>
    ELSE Line(Head(order), files[Head(order)]) \o Serialize(files, Tail(order))

\* bufio's default buffer size
BufSize == 4096

\* The bytes bufio has handed to the file when WriteString of the last line
\* returns: the full buffers; the rest waits for the deferred Flush.
WrittenInLoop(data) ==
    IF Len(data) = 0 THEN 0 ELSE BufSize * ((Len(data) - 1) \div BufSize)

\* The ways one Save can go: create fails, or the file takes only the
\* first n bytes (n = Len(data): every byte; a write that fails is cut
\* within the first MaxCut bytes)
SaveOutcomes(data) ==
    {[create |-> FALSE, n |-> 0]}
    \cup {[create |-> TRUE, n |-> n] :
            n \in {k \in 0..Len(data) : k <= MaxCut \/ k = Len(data)}}

\* Save's return value
SaveResult(data, io) ==
    IF ~io.create THEN "error"
    ELSE IF io.n < WrittenInLoop(data) THEN "error"
    ELSE "nil"

----------------------------------------------------------------------------
(* The stages of a run.  One run is Load, Compute, Diff, the transfer (not  *)
(* part of the package) and Save; every stage returns before the next.      *)

NoResults == [load |-> "none", compute |-> "none", save |-> "none"]

\* Load(directory)
Load ==
    /\ pc = "load"
    /\ \E io \in {"ok", "fail"} :
         LET r == LoadResult(fs, io)
         IN  /\ prev' = r.files
             /\ res' = [res EXCEPT !.load = r.res]
             /\ pc' = IF r.res = "nil" THEN "compute" ELSE "aborted"
    /\ UNCHANGED <<directory, fs, cur, changedFiles, deletedFiles, ignoredFiles,
                   failure, flushed, before, runs, edits, dirty>>

\* Compute(directory)
Compute ==
    /\ pc = "compute"
    /\ \E fail \in Failures(fs) :
         LET r == ComputeResult(directory, fs, fail)
         IN  /\ cur' = r.files
             /\ ignoredFiles' = r.ignored
             /\ failure' = fail
             /\ res' = [res EXCEPT !.compute = r.res]
             /\ pc' = IF r.res = "nil" THEN "diff" ELSE "aborted"
    /\ UNCHANGED <<directory, fs, prev, changedFiles, deletedFiles,
                   flushed, before, runs, edits, dirty>>

\* changedFiles, deletedFiles := previous.Diff(current)
DiffStep ==
    /\ pc = "diff"
    /\ \E r \in Diff(prev, cur) :
         /\ changedFiles' = r[1]
         /\ deletedFiles' = r[2]
    /\ pc' = "save"
    /\ UNCHANGED <<directory, fs, prev, cur, res, ignoredFiles, failure,
                   flushed, before, runs, edits, dirty>>

\* current.Save(): os.Create truncates the index file, the loop fills the
\* buffer in the order the range visits the map, the deferred Flush writes
\* the rest and its error is dropped.
Save ==
    /\ pc = "save"
    /\ \E order \in Orders(DOMAIN cur) :
         LET data == Serialize(cur, order)
         IN  \E io \in SaveOutcomes(data) :
               /\ fs' = IF io.create
                        THEN Put(fs, indexFile, File(SubSeq(data, 1, io.n)))
                        ELSE fs
               /\ res' = [res EXCEPT !.save = SaveResult(data, io)]
               /\ flushed' = (io.create /\ io.n = Len(data))
               /\ dirty' = IF io.create /\ io.n = Len(data) THEN FALSE ELSE TRUE
    /\ before' = IF indexFile \in DOMAIN fs THEN <<fs[indexFile].content>> ELSE <<>>
    /\ pc' = "done"
    /\ UNCHANGED <<directory, prev, cur, changedFiles, deletedFiles,
                   ignoredFiles, failure, runs, edits>>

\* The next invocation of the program on the same directory
NextRun ==
    /\ pc \in {"done", "aborted"}
    /\ runs < MaxRuns
    /\ runs' = runs + 1
    /\ pc' = "load"
    /\ prev' = NoIndex
    /\ cur' = NoIndex
    /\ changedFiles' = <<>>
    /\ deletedFiles' = <<>>
    /\ ignoredFiles' = {}
    /\ failure' = NoFailure
    /\ res' = NoResults
    /\ flushed' = FALSE
    /\ before' = <<>>
    /\ UNCHANGED <<directory, fs, edits, dirty>>

----------------------------------------------------------------------------
(* The user's edits of the tree between two runs *)

UserFiles == {<<"a">>, <<"b">>}
Contents == {<<"a">>, <<"b">>}
IgnoreLists == {<<"b">>, <<"a", LF, "b", LF>>}

WriteFile ==
    /\ pc \in {"done", "aborted"}
    /\ edits < MaxEdits
    /\ \E p \in UserFiles, c \in Contents :
         /\ ~(p \in DOMAIN fs /\ fs[p] = File(c))
         /\ fs' = Put(fs, p, File(c))
    /\ edits' = edits + 1
    /\ dirty' = TRUE
    /\ UNCHANGED <<directory, prev, cur, changedFiles, deletedFiles, res,
                   ignoredFiles, failure, flushed, before, pc, runs>>

RemoveFile ==
    /\ pc \in {"done", "aborted"}
    /\ edits < MaxEdits
    /\ \E p \in (UserFiles \cup {ignoreFile}) \cap DOMAIN fs :
         fs' = Remove(fs, p)
    /\ edits' = edits + 1
    /\ dirty' = TRUE
    /\ UNCHANGED <<directory, prev, cur, changedFiles, deletedFiles, res,
                   ignoredFiles, failure, flushed, before, pc, runs>>

WriteIgnore ==
    /\ pc \in {"done", "aborted"}
    /\ edits < MaxEdits
    /\ \E c \in IgnoreLists :
         /\ ~(ignoreFile \in DOMAIN fs /\ fs[ignoreFile] = File(c))
         /\ fs' = Put(fs, ignoreFile, File(c))
    /\ edits' = edits + 1
    /\ dirty' = TRUE
    /\ UNCHANGED <<directory, prev, cur, changedFiles, deletedFiles, res,
                   ignoredFiles, failure, flushed, before, pc, runs>>

----------------------------------------------------------------------------
(* Repeated runs on one tree *)

\* The directory argument: clean, with a trailing separator, with a
\* leading "./"
RootForms == {<<"d">>, <<"d", "/">>, <<".", "/", "d">>}

NoTree == [p \in {} |-> Dir]

\* What a run holds before its first stage
Fresh ==
    /\ prev = NoIndex
    /\ cur = NoIndex
    /\ changedFiles = <<>>
    /\ deletedFiles = <<>>
    /\ res = NoResults
    /\ ignoredFiles = {}
    /\ failure = NoFailure
    /\ flushed = FALSE
    /\ before = <<>>
    /\ runs = 1
    /\ edits = 0
    /\ dirty = TRUE

Init ==
    /\ directory \in {<<"d">>, <<"d", "/">>}
    /\ fs \in {Put(NoTree, <<"a">>, File(<<"a">>)),
               Put(Put(NoTree, <<"a">>, File(<<"a">>)), <<"b">>, File(<<"b">>))}
    /\ pc = "load"
    /\ Fresh

Next ==
    \/ Load
    \/ Compute
    \/ DiffStep
    \/ Save
    \/ NextRun
    \/ WriteFile
    \/ RemoveFile
    \/ WriteIgnore

Spec == Init /\ [][Next]_vars

----------------------------------------------------------------------------
(* Diff on any two indexes *)

\* The Index values with at most MaxEntries of the paths, each with one of
\* the sums
Indexes(paths, sums) ==
    UNION {[D -> sums] : D \in {E \in SUBSET paths : Cardinality(E) <= MaxEntries}}

DiffPaths == {<<"a">>, <<"b">>, <<"c">>}
DiffSums == {<<>>, <<"1">>, <<"a">>, <<"b">>, <<"c">>}

InitDiff ==
    /\ directory = <<"d">>
    /\ fs = NoTree
    /\ pc = "diff"
    /\ runs = 1 /\ edits = 0 /\ dirty = TRUE
    /\ changedFiles = <<>> /\ deletedFiles = <<>>
    /\ res = NoResults /\ ignoredFiles = {} /\ failure = NoFailure
    /\ flushed = FALSE /\ before = <<>>
    /\ prev \in Indexes(DiffPaths, DiffSums)
    /\ cur \in Indexes(DiffPaths, DiffSums)

NextDiff == DiffStep

SpecDiff == InitDiff /\ [][NextDiff]_vars

----------------------------------------------------------------------------
(* Save of any Index, then Load of what it wrote *)

StorePaths == {<<"a">>, <<"b">>, <<"a", ":", "b">>, <<"a", LF>>}
StoreSums == {<<>>, <<"1">>, <<"1", ":">>, <<"1", CR>>, <<"1", LF>>}

\* Load(i.directory) after i.Save() returned, in the same process
LoadBack ==
    /\ pc = "done"
    /\ \E io \in {"ok", "fail"} :
         LET r == LoadResult(fs, io)
         IN  /\ prev' = r.files
             /\ res' = [res EXCEPT !.load = r.res]
    /\ pc' = "loaded"
    /\ UNCHANGED <<directory, fs, cur, changedFiles, deletedFiles, ignoredFiles,
                   failure, flushed, before, runs, edits, dirty>>

InitStore ==
    /\ directory = <<"d">>
    /\ fs \in {NoTree, Put(NoTree, indexFile, File(<<"z", ":", "9", LF>>))}
    /\ pc = "save"
    /\ runs = 1 /\ edits = 0 /\ dirty = TRUE
    /\ changedFiles = <<>> /\ deletedFiles = <<>>
    /\ res = NoResults /\ ignoredFiles = {} /\ failure = NoFailure
    /\ flushed = FALSE /\ before = <<>>
    /\ prev = NoIndex
    /\ cur \in Indexes(StorePaths, StoreSums)

NextStore ==
    \/ Save
    \/ LoadBack

SpecStore == InitStore /\ [][NextStore]_vars

----------------------------------------------------------------------------
(* Load of any index file *)

MaxLines == 2

IndexLines == {<<"a", ":", "1">>, <<"b", ":", "2">>, <<"a", ":", "3">>,
               <<>>, <<"a">>, <<"a", ":", "1", ":", "2">>}

RECURSIVE Texts(_)
Texts(n) ==
    IF n = 0 THEN {<<>>}
    ELSE Texts(n - 1) \cup {t \o l \o <<LF>> : t \in Texts(n - 1), l \in IndexLines}

\* The index files of at most MaxLines lines, the last one with or without
\* its newline
IndexTexts ==
    Texts(MaxLines)
    \cup {SubSeq(t, 1, Len(t) - 1) : t \in Texts(MaxLines) \ {<<>>}}

InitLoad ==
    /\ directory = <<"d">>
    /\ fs \in {NoTree} \cup {Put(NoTree, indexFile, File(t)) : t \in IndexTexts}
    /\ pc = "load"
    /\ Fresh

NextLoad == Load

SpecLoad == InitLoad /\ [][NextLoad]_vars

----------------------------------------------------------------------------
(* Compute on any tree *)

\* The trees: files a and b, a symbolic link l, a directory s with a file
\* s/c, an index file and an ignore file, each there or not.
Optional(entries) == {NoTree} \cup entries

Merge(f, g) == [p \in DOMAIN f \cup DOMAIN g |-> IF p \in DOMAIN f THEN f[p] ELSE g[p]]

Trees ==
    { Merge(a, Merge(b, Merge(l, Merge(sub, Merge(idx, ign))))) :
        a   \in Optional({Put(NoTree, <<"a">>, File(<<"a">>))}),
        b   \in Optional({Put(NoTree, <<"b">>, File(c)) : c \in Contents}),
        l   \in Optional({Put(NoTree, <<"l">>, Symlink)}),
        sub \in Optional({Put(NoTree, <<"s">>, Dir),
                          Put(Put(NoTree, <<"s">>, Dir), <<"s", "/", "c">>, File(<<"c">>))}),
        idx \in Optional({Put(NoTree, indexFile, File(<<"a", ":", "6", "1", LF>>))}),
        ign \in Optional({Put(NoTree, ignoreFile, File(c)) :
                            c \in IgnoreLists \cup {<<"s", "/", "c", LF>>}}) }

InitCompute ==
    /\ directory \in RootForms
    /\ fs \in Trees
    /\ pc = "compute"
    /\ Fresh

NextCompute == Compute

SpecCompute == InitCompute /\ [][NextCompute]_vars

----------------------------------------------------------------------------
(* Properties *)

FileText(f, p) == IF p \in DOMAIN f THEN <<f[p].content>> ELSE <<>>

HasChar(str, c) == \E i \in 1..Len(str) : str[i] = c

\* byte-wise lexicographic order of two strings
RECURSIVE LexLess(_, _)
LexLess(s1, s2) ==
    IF s1 = <<>> THEN s2 # <<>>
    ELSE IF s2 = <<>> THEN FALSE
    ELSE IF Head(s1) = Head(s2) THEN LexLess(Tail(s1), Tail(s2))
    ELSE Byte(Head(s1)) < Byte(Head(s2))

Sorted(S) ==
    CHOOSE o \in Orders(S) : \A i, j \in 1..Len(o) : i < j => LexLess(o[i], o[j])

\* C1: when previous.Diff(current) has returned, changedFiles lists, once
\* each, exactly the paths of current that previous lacks or holds with
\* another sum, and deletedFiles exactly the paths of previous that current
\* lacks.
C1_DiffExact ==
    pc = "save" =>
      /\ Range(changedFiles) =
           {p \in DOMAIN cur : p \notin DOMAIN prev \/ prev[p] # cur[p]}
      /\ Range(deletedFiles) = {p \in DOMAIN prev : p \notin DOMAIN cur}
      /\ Len(changedFiles) = Cardinality(Range(changedFiles))
      /\ Len(deletedFiles) = Cardinality(Range(deletedFiles))

\* Save has returned nil with every byte written, and Load could read the
\* file
SavedAndRead ==
    /\ pc = "loaded"
    /\ res.save = "nil"
    /\ flushed
    /\ res.load # "error"

\* every sum is one a digest can be: no ":", no newline, no carriage return
PlainSums(files) ==
    \A p \in DOMAIN files :
      ~HasChar(files[p], ":") /\ ~HasChar(files[p], LF) /\ ~HasChar(files[p], CR)

\* C2 as first stated, for the Index values whose sums are plain: after a
\* Save that succeeded, Load returns without error an Index with the
\* mapping that was saved, whatever the paths.
C2_RoundTripAny ==
    (SavedAndRead /\ PlainSums(cur)) => res.load = "nil" /\ prev = cur

\* no path and no sum holds the separator or a newline, and no sum ends in
\* a carriage return
PlainIndex(files) ==
    \A p \in DOMAIN files :
      /\ ~HasChar(p, ":") /\ ~HasChar(p, LF)
      /\ ~HasChar(files[p], ":") /\ ~HasChar(files[p], LF)
      /\ (files[p] = <<>> \/ files[p][Len(files[p])] # CR)

\* C2, amended: after a Save that succeeded, Load returns without error an
\* Index with the mapping that was saved, for every Index whose paths and
\* sums hold no ":" and no newline and whose sums do not end in "\r".
C2_RoundTrip ==
    (SavedAndRead /\ PlainIndex(cur)) => res.load = "nil" /\ prev = cur

C2_Witness ==
    /\ SavedAndRead
    /\ PlainIndex(cur)
    /\ Cardinality(DOMAIN cur) = 2
    /\ before # <<>>
    /\ prev = cur

\* C3: the Diff of a run that follows a run whose Save completed, with no
\* edit of the tree in between, returns two empty lists.
C3_FixedPoint ==
    (pc = "save" /\ ~dirty) => changedFiles = <<>> /\ deletedFiles = <<>>

\* C4: a Save that succeeded has written the lines in the order of their
\* paths.
C4_SavedSorted ==
    (pc = "done" /\ res.save = "nil" /\ flushed) =>
      FileText(fs, indexFile) = <<Serialize(cur, Sorted(DOMAIN cur))>>

\* The tree of scenario B: a holds "a", b holds "b", the ignore file lists b
ScenarioB ==
    Put(Put(Put(NoTree, <<"a">>, File(<<"a">>)), <<"b">>, File(<<"b">>)),
        ignoreFile, File(<<"b">>))

\* C5 as first stated, on its own example: with files a and b and an
\* ignore file listing b, Compute returns the entries {a -> sha1("a")} only.
C5_ScenarioOnlyA ==
    (pc = "diff" /\ directory = <<"d">> /\ fs = ScenarioB) =>
      cur = [p \in {<<"a">>} |-> <<"6", "1">>]

\* The lines of the ignore files of the model
ListedIn(text) ==
    CASE text = <<"b">> -> {<<"b">>}
      [] text = <<"a", LF, "b", LF>> -> {<<"a">>, <<"b">>}
      [] text = <<"s", "/", "c", LF>> -> {<<"s", "/", "c">>}

\* The key of entry e: its relative path when the directory is given clean,
\* else the path from the working directory
KeyOf(e) == IF directory = <<"d">> THEN e ELSE <<"d", "/">> \o e

\* The hex of the bytes of the contents of the model's files
DigestOf(text) ==
    CASE text = <<"a">> -> <<"6", "1">>
      [] text = <<"b">> -> <<"6", "2">>
      [] text = <<"c">> -> <<"6", "3">>
      [] text = <<"a", LF, "b", LF>> -> <<"6", "1", "0", "a", "6", "2", "0", "a">>
      [] text = <<"s", "/", "c", LF>> -> <<"7", "3", "2", "f", "6", "3", "0", "a">>
      [] text = <<"a", ":", "6", "1", LF>> ->
           <<"6", "1", "3", "a", "3", "6", "3", "1", "0", "a">>

\* C5, amended: the Index Compute returns has one key for each regular file
\* the walk reaches (the ignore file and the index file are regular files
\* like the others; directories and symbolic links are none; the files
\* under a directory that cannot be listed are not reached) whose key is
\* not a line of the ignore file, mapped to the digest of the file's
\* content; with files a and b and an ignore file listing b, all reached,
\* the entries are a -> sha1("a") and .osyncignore -> sha1("b").
C5_ComputeExact ==
    pc = "diff" =>
      LET listed  == IF ignoreFile \in DOMAIN fs
                     THEN ListedIn(fs[ignoreFile].content) ELSE {}
          reached == {e \in DOMAIN fs :
                        /\ fs[e].kind = "file"
                        /\ ~(failure.kind = "readdir" /\ failure.at = Root)
                        /\ ~(failure.kind = "readdir" /\ failure.at = <<"s">>
                               /\ e = <<"s", "/", "c">>)}
          kept    == {e \in reached : KeyOf(e) \notin listed}
      IN  /\ DOMAIN cur = {KeyOf(e) : e \in kept}
          /\ \A e \in kept : cur[KeyOf(e)] = DigestOf(fs[e].content)
          /\ (directory = <<"d">> /\ fs = ScenarioB /\ failure.kind # "readdir") =>
               cur = [p \in {<<"a">>, ignoreFile} |->
                        IF p = <<"a">> THEN <<"6", "1">> ELSE <<"6", "2">>]

C5_Witness ==
    /\ pc = "diff"
    /\ directory = <<"d">>
    /\ fs = ScenarioB
    /\ DOMAIN cur = {<<"a">>, ignoreFile}

\* C6: no path of the ignore set Compute used is in either list Diff
\* returns.
C6_IgnoredInvisible ==
    pc = "save" =>
      \A p \in ignoredFiles :
        p \notin Range(changedFiles) /\ p \notin Range(deletedFiles)

\* C7: Load of an index file that holds a line without ":" returns an
\* error.
C7_CorruptReported ==
    (/\ pc \in {"compute", "aborted"}
     /\ indexFile \in DOMAIN fs
     /\ \E l \in Range(ScanLines(fs[indexFile].content)) : ~HasChar(l, ":"))
      => res.load = "error"

\* the failure met something Compute does: any lstat of the walk, any
\* listing of a directory, the opening and reading of a file it hashes or
\* of the ignore file
Struck ==
    \/ failure.kind \in {"lstat", "readdir"}
    \/ /\ failure.kind \in {"open", "read"}
       /\ \/ failure.at = ignoreFile
          \/ LocalPath(directory, failure.at) \notin IgnoreSet(fs)

\* C8: a Compute that met an I/O failure returns an error and no Index.
C8_ComputeFailsCleanly ==
    (pc \in {"diff", "aborted"} /\ Struck) =>
      res.compute = "error" /\ cur = NoIndex

\* C9: a Save that did not write every byte returns an error; the index
\* file it leaves is the whole new content or the file as it was; a Save
\* that returns nil has written every entry.
C9_SaveAtomic ==
    pc = "done" =>
      LET whole == \E order \in Orders(DOMAIN cur) :
                     FileText(fs, indexFile) = <<Serialize(cur, order)>>
      IN  /\ ~flushed => res.save = "error"
          /\ whole \/ FileText(fs, indexFile) = before
          /\ res.save = "nil" => whole

\* C10: the keys of the Index Compute returns are paths relative to the
\* directory, whatever the form the directory is given in, and none is a
\* line of the ignore file.
C10_KeysRelative ==
    pc = "diff" =>
      DOMAIN cur \subseteq
        {e \in DOMAIN fs : fs[e].kind = "file"} \ IgnoreSet(fs)

====
